---- MODULE Spec2Model ----
(***************************************************************************)
(* Model of src/plots/plot_counts.py: counts_to_percentages and            *)
(* calc_counts_and_percentages.                                            *)
(*                                                                         *)
(* A pandas Series is a sequence of records [key, val] (index label and    *)
(* value, in positional order).  A DataFrame with the columns "g" (the     *)
(* grouping column) and "w" (a weight column) is a sequence of rows        *)
(* [g, w].  Category labels are the integers 1..MaxLabel (pandas orders    *)
(* them numerically, as it orders "a" < "b" < ...); NA is a missing label  *)
(* (NaN / None).  The Frequency Table is a sequence of rows                *)
(* [group, n, percent].                                                    *)
(*                                                                         *)
(* Percentages are float64 values in the code, so they are float64 values  *)
(* here: division, multiplication, comparison and the "%.1f" conversion    *)
(* round as IEEE 754 and Python do.                                        *)
(***************************************************************************)
EXTENDS Integers, Sequences, FiniteSets, TLC

VARIABLES x, data, call, percent, table, raised

vars == <<x, data, call, percent, table, raised>>

(***************************************************************************)
(* Bounds of the model and the inputs drawn in Init.                       *)
(***************************************************************************)
MaxLen == 3
MaxRows == 3
MaxLabel == 2

\* Counts offered to counts_to_percentages: zero, shares below 0.1% and above
\* 99.9% (1 of 10001), the exact boundaries 0.1% and 99.9% (1 and 999 of 1000),
\* halves of a tenth whose rounding the float arithmetic decides (23 and 57 of 80).
CountValues == {0, 1, 23, 57, 999, 1000, 10000}

\* Weights of the rows of data (non-negative; 0 gives a category of count 0).
WeightValues == {0, 1, 3}

NA == 0
Labels == 1..MaxLabel

\* The doctest inputs of counts_to_percentages (lines 22-23).
Scenario1 == <<1, 0, 1000, 2000, 1000, 5000, 1000>>
Scenario2 == <<1, 0, 10000>>
\* Five rows with the categories a, a, b, b, b (1 = "a", 2 = "b").
Scenario3 == <<[g |-> 1, w |-> 1], [g |-> 1, w |-> 1], [g |-> 2, w |-> 1],
               [g |-> 2, w |-> 1], [g |-> 2, w |-> 1]>>

SeqsUpTo(S, n) == UNION {[1..k -> S] : k \in 0..n}

\* pd.Series(values): the default RangeIndex 0, 1, ... as keys.
MakeSeries(values) == [k \in 1..Len(values) |-> [key |-> k - 1, val |-> values[k]]]

(***************************************************************************)
(* float64 arithmetic.  A positive double is [h, m, l, e]: its 53-bit      *)
(* significand h * 2^48 + m * 2^24 + l (16 <= h < 32, m and l below 2^24)  *)
(* and the exponent e of its leading bit, so that its value is             *)
(* significand * 2^(e - 52).  Operands stay below 2^22, far from the       *)
(* subnormal and overflow ranges.                                          *)
(***************************************************************************)
Limb == 2^24

FZero == [kind |-> "zero", h |-> 0, m |-> 0, l |-> 0, e |-> 0]
FNaN == [kind |-> "nan", h |-> 0, m |-> 0, l |-> 0, e |-> 0]
FInf == [kind |-> "inf", h |-> 0, m |-> 0, l |-> 0, e |-> 0]
FNum(h, m, l, e) == [kind |-> "num", h |-> h, m |-> m, l |-> l, e |-> e]

\* The next double above f.
Succ(f) ==
    IF f.l + 1 < Limb THEN FNum(f.h, f.m, f.l + 1, f.e)
    ELSE IF f.m + 1 < Limb THEN FNum(f.h, f.m + 1, 0, f.e)
    ELSE IF f.h + 1 < 32 THEN FNum(f.h + 1, 0, 0, f.e)
    ELSE FNum(16, 0, 0, f.e + 1)

RECURSIVE Normalize(_, _, _)
\* a / b * 2^e brought to 1 <= a / b < 2.
Normalize(a, b, e) ==
    IF a >= 2 * b THEN Normalize(a, 2 * b, e + 1)
    ELSE IF a < b THEN Normalize(2 * a, b, e - 1)
    ELSE [a |-> a, b |-> b, e |-> e]

\* The next 24 bits q of r / b (r < b) and the remainder left, eight bits a step.
DivLimb(r, b) ==
    LET q1 == (r * 256) \div b
        r1 == (r * 256) % b
        q2 == (r1 * 256) \div b
        r2 == (r1 * 256) % b
        q3 == (r2 * 256) \div b
        r3 == (r2 * 256) % b
    IN [q |-> q1 * 65536 + q2 * 256 + q3, r |-> r3]

\* c / t of two non-negative integers as pandas divides them: rounded to the
\* nearest double, ties to even; NaN for 0 / 0 and inf for c / 0 (pandas raises
\* no exception).
FDiv(c, t) ==
    IF t = 0 THEN (IF c = 0 THEN FNaN ELSE FInf)
    ELSE IF c = 0 THEN FZero
    ELSE LET s == Normalize(c, t, 0)
             r0 == s.a - s.b
             h == 16 + (r0 * 16) \div s.b
             dm == DivLimb((r0 * 16) % s.b, s.b)
             dl == DivLimb(dm.r, s.b)
             up == \/ 2 * dl.r > s.b
                   \/ 2 * dl.r = s.b /\ dl.q % 2 = 1
             f == FNum(h, dm.q, dl.q, s.e)
         IN IF up THEN Succ(f) ELSE f

RECURSIVE BitLen(_)
BitLen(n) == IF n = 0 THEN 0 ELSE 1 + BitLen(n \div 2)

\* The exact product significand * k (k <= 100) as limbs, the lowest first.
MulLimbs(f, k) ==
    LET p3 == f.l * k
        p2 == f.m * k + p3 \div Limb
        p1 == f.h * k + p2 \div Limb
    IN <<p3 % Limb, p2 % Limb, p1>>

\* f * k for an integer 1 <= k <= 100, rounded to the nearest double, ties to even.
FMul(f, k) ==
    IF f.kind # "num" THEN f
    ELSE LET P == MulLimbs(f, k)
             s == BitLen(P[3]) - 5
             T == 2^s
             l == P[1] \div T + (P[2] % T) * (Limb \div T)
             m == P[2] \div T + (P[3] % T) * (Limb \div T)
             dropped == P[1] % T
             up == \/ 2 * dropped > T
                   \/ 2 * dropped = T /\ l % 2 = 1
             g == FNum(P[3] \div T, m, l, f.e + s)
         IN IF up THEN Succ(g) ELSE g

\* f < g on non-negative doubles; every comparison with NaN is false.
FLess(f, g) ==
    IF f.kind = "nan" \/ g.kind = "nan" THEN FALSE
    ELSE IF f.kind = "inf" THEN FALSE
    ELSE IF g.kind = "inf" THEN TRUE
    ELSE IF f.kind = "zero" THEN g.kind = "num"
    ELSE IF g.kind = "zero" THEN FALSE
    ELSE \/ f.e < g.e
         \/ f.e = g.e /\ f.h < g.h
         \/ f.e = g.e /\ f.h = g.h /\ f.m < g.m
         \/ f.e = g.e /\ f.h = g.h /\ f.m = g.m /\ f.l < g.l

\* The literals 0.1, 99.9 and 100 of lines 34 and 36.
F0_1 == FDiv(1, 10)
F99_9 == FDiv(999, 10)
F100 == FDiv(100, 1)

LimbAt(P, k) == IF k \in 1..3 THEN P[k] ELSE 0

\* The positive double f (f < 2^19) in tenths: 10 * f rounded to the nearest
\* integer on its exact binary value, ties to even, as "%.1f" rounds.
Tenths(f) ==
    LET P == MulLimbs(f, 10)
        d == 52 - f.e
        j == d \div 24
        s == d % 24
        T == 2^s
        n == LimbAt(P, j + 1) \div T + LimbAt(P, j + 2) * (Limb \div T)
        top == IF s >= 1 THEN LimbAt(P, j + 1) % T ELSE LimbAt(P, j)
        half == IF s >= 1 THEN T \div 2 ELSE Limb \div 2
        below == IF s >= 1 THEN j ELSE j - 1
        sticky == \E k \in 1..below : LimbAt(P, k) # 0
        up == \/ top > half
              \/ top = half /\ (sticky \/ n % 2 = 1)
    IN IF up THEN n + 1 ELSE n

\* f"{i:.1f}"
FormatFixed1(i) ==
    CASE i.kind = "nan" -> "nan"
      [] i.kind = "inf" -> "inf"
      [] i.kind = "zero" -> "0.0"
      [] OTHER -> LET q == Tenths(i)
                  IN ToString(q \div 10) \o "." \o ToString(q % 10)

(***************************************************************************)
(* counts_to_percentages                                                   *)
(***************************************************************************)
RECURSIVE SumVals(_)
\* x.sum()
SumVals(s) == IF s = <<>> THEN 0 ELSE s[1].val + SumVals(Tail(s))

\* x / x_sum * 100, one element.
RawPercent(c, x_sum) == FMul(FDiv(c, x_sum), 100)
\* FormatPercent with i <= 0.1 for i < 0.1.
FormatPercent_le(i) ==
    IF i.kind = "zero" THEN "0%"
    ELSE IF ~FLess(F0_1, i) THEN "<0.1%"
    ELSE IF FLess(F99_9, i) /\ FLess(i, F100) THEN ">99.9%"
    ELSE FormatFixed1(i) \o "%"

\* FormatPercent with 99.9 < i <= 100 for 99.9 < i < 100.
FormatPercent_incl100(i) ==
    IF i.kind = "zero" THEN "0%"
    ELSE IF FLess(i, F0_1) THEN "<0.1%"
    ELSE IF FLess(F99_9, i) /\ ~FLess(F100, i) THEN ">99.9%"
    ELSE FormatFixed1(i) \o "%"

\* The conditional expression of lines 31-37.
FormatPercent(i) ==
    IF i.kind = "zero" THEN "0%"
    ELSE IF FLess(i, F0_1) THEN "<0.1%"
    ELSE IF FLess(F99_9, i) /\ FLess(i, F100) THEN ">99.9%"
    ELSE FormatFixed1(i) \o "%"
\* Replace with its two arguments exchanged.
Replace_swapped(s) == IF s = "<0.1%" THEN "0.0%" ELSE s

\* .replace("0.0%", "<0.1%"), one element.
Replace(s) == IF s = "0.0%" THEN "<0.1%" ELSE s
\* counts_to_percentages with x.max() for x.sum().
counts_to_percentages_max(xs) ==
    LET x_max == IF xs = <<>> THEN 0
                 ELSE CHOOSE v \in {xs[k].val : k \in 1..Len(xs)} :
                          \A k \in 1..Len(xs) : xs[k].val <= v
    IN [k \in 1..Len(xs) |->
            [key |-> xs[k].key,
             val |-> Replace(FormatPercent(RawPercent(xs[k].val, x_max)))]]

counts_to_percentages(xs) ==
    LET x_sum == SumVals(xs)
    IN [k \in 1..Len(xs) |->
            [key |-> xs[k].key,
             val |-> Replace(FormatPercent(RawPercent(xs[k].val, x_sum)))]]

(***************************************************************************)
(* calc_counts_and_percentages                                             *)
(***************************************************************************)
Columns == {"g", "w"}

\* data[name]
Column(d, name) == [k \in 1..Len(d) |-> d[k][name]]
\* unique that keeps every occurrence of a label.
unique_all(col) == SelectSeq(col, LAMBDA v : v # NA)

RECURSIVE unique(_)
\* The distinct labels of a column in first-encountered order; missing labels
\* are dropped (dropna=True is the default of value_counts and of groupby).
unique(col) ==
    IF col = <<>> THEN <<>>
    ELSE LET front == unique(SubSeq(col, 1, Len(col) - 1))
             last == col[Len(col)]
         IN IF last = NA \/ (\E k \in 1..Len(front) : front[k] = last)
            THEN front
            ELSE Append(front, last)
\* CountOf that counts a label once however often it occurs.
CountOf_once(col, v) == IF \E k \in 1..Len(col) : col[k] = v THEN 1 ELSE 0

\* The number of rows of the column that hold the label v.
CountOf(col, v) == Cardinality({k \in 1..Len(col) : col[k] = v})
\* The arrangements of s that put the vals in ascending order.
sort_values_ascending(s) ==
    LET n == Len(s)
        orders == {p \in [1..n -> 1..n] :
                      /\ \A i, j \in 1..n : i # j => p[i] # p[j]
                      /\ \A i, j \in 1..n : i < j => s[p[i]].val <= s[p[j]].val}
    IN {[k \in 1..n |-> s[p[k]]] : p \in orders}

\* Series.sort_values(ascending=False) as value_counts applies it, with the
\* default kind="quicksort": the result is descending by val, and the sort is
\* not stable, so elements of equal val may come out in any order.  The value
\* is the set of the arrangements the sort may return.
sort_values(s) ==
    LET n == Len(s)
        orders == {p \in [1..n -> 1..n] :
                      /\ \A i, j \in 1..n : i # j => p[i] # p[j]
                      /\ \A i, j \in 1..n : i < j => s[p[i]].val >= s[p[j]].val}
    IN {[k \in 1..n |-> s[p[k]]] : p \in orders}

RECURSIVE InsertByKey(_, _)
InsertByKey(s, e) ==
    IF s = <<>> THEN <<e>>
    ELSE IF s[1].key <= e.key THEN <<s[1]>> \o InsertByKey(Tail(s), e)
    ELSE <<e>> \o s

RECURSIVE sort_index(_)
\* Series.sort_index(): ascending by key (the keys are distinct).
sort_index(s) ==
    IF s = <<>> THEN <<>>
    ELSE InsertByKey(sort_index(SubSeq(s, 1, Len(s) - 1)), s[Len(s)])

\* Series.value_counts(sort=vsort): the set of the series it may return (one
\* series, in first-encountered order, when vsort is false).
value_counts(col, vsort) ==
    LET labels == unique(col)
        counts == [k \in 1..Len(labels) |->
                      [key |-> labels[k], val |-> CountOf(col, labels[k])]]
    IN IF vsort THEN sort_values(counts) ELSE {counts}

RECURSIVE SumWhere(_, _, _, _)
\* The sum of column `weight` over the rows whose column `group` holds v.
SumWhere(d, group, weight, v) ==
    IF d = <<>> THEN 0
    ELSE (IF d[1][group] = v THEN d[1][weight] ELSE 0)
         + SumWhere(Tail(d), group, weight, v)

\* data.groupby(group)[weight].sum(): one key per distinct label, the keys
\* ascending (sort=True is the default of groupby).
groupby_sum(d, group, weight) ==
    LET labels == unique(Column(d, group))
    IN sort_index([k \in 1..Len(labels) |->
                      [key |-> labels[k], val |-> SumWhere(d, group, weight, labels[k])]])

\* The val of series s at index label key.
At(s, key) == s[CHOOSE k \in 1..Len(s) : s[k].key = key].val

\* pd.concat([counts, percent], axis=1).rename_axis(group).reset_index():
\* the two series joined on their index, the index made the first column.
concat(counts, pct) ==
    [k \in 1..Len(counts) |->
        [group |-> counts[k].key, n |-> counts[k].val, percent |-> At(pct, counts[k].key)]]

\* Counts that also sorts the weighted sums by value when sort is True.
Counts_sorted(group, d, sort, weight) ==
    LET vsort == (sort = "True")
    IN IF weight = "None"
       THEN (IF sort = "index"
             THEN {sort_index(c) : c \in value_counts(Column(d, group), vsort)}
             ELSE value_counts(Column(d, group), vsort))
       ELSE (IF vsort THEN sort_values(groupby_sum(d, group, weight))
             ELSE {groupby_sum(d, group, weight)})

\* The counts of lines 72-79: the set of the series the lines may compute.
Counts(group, d, sort, weight) ==
    LET vsort == (sort = "True")
    IN IF weight = "None"
       THEN (IF sort = "index"
             THEN {sort_index(c) : c \in value_counts(Column(d, group), vsort)}
             ELSE value_counts(Column(d, group), vsort))
       ELSE {groupby_sum(d, group, weight)}

\* calc_counts_and_percentages that raises where the counts sum to zero.
calc_counts_and_percentages_raising(group, d, sort, weight) ==
    IF group \notin Columns \/ (weight # "None" /\ weight \notin Columns)
    THEN {[raised |-> "KeyError", value |-> <<>>]}
    ELSE {IF SumVals(counts) = 0
          THEN [raised |-> "ZeroDivisionError", value |-> <<>>]
          ELSE [raised |-> "none",
                value |-> concat(counts, counts_to_percentages(counts))] :
             counts \in Counts(group, d, sort, weight)}

\* The outcomes of a call: the table returned, or the exception a column name
\* absent from data raises.
calc_counts_and_percentages(group, d, sort, weight) ==
    IF group \notin Columns \/ (weight # "None" /\ weight \notin Columns)
    THEN {[raised |-> "KeyError", value |-> <<>>]}
    ELSE {[raised |-> "none",
           value |-> concat(counts, counts_to_percentages(counts))] :
             counts \in Counts(group, d, sort, weight)}

(***************************************************************************)
(* The state machine: the inputs are drawn in Init, each action is one     *)
(* call of one of the two functions on them.                               *)
(***************************************************************************)
\* The arguments offered: sort is True, False or "index" ("True" and "False"
\* stand for the booleans), weight is None ("None") or a column name, and
\* "nocol" names no column of data.
SortArgs == {"True", "False", "index"}
GroupArgs == {"g", "nocol"}
WeightArgs == {"None", "w", "nocol"}

Rows == [g : Labels \cup {NA}, w : WeightValues]

SeriesInputs == {MakeSeries(v) : v \in SeqsUpTo(CountValues, MaxLen) \cup {Scenario1, Scenario2}}
DataInputs == SeqsUpTo(Rows, MaxRows) \cup {Scenario3}

NoCall == [fn |-> "none", group |-> "", sort |-> "", weight |-> ""]

Init ==
    /\ \/ x \in SeriesInputs /\ data = <<>>
       \/ x = <<>> /\ data \in DataInputs
    /\ call = NoCall
    /\ percent = <<>>
    /\ table = <<>>
    /\ raised = "none"

\* The functions keep no state between calls, so a behaviour is one call.
CallCountsToPercentages ==
    /\ call = NoCall
    /\ call' = [fn |-> "counts_to_percentages", group |-> "", sort |-> "", weight |-> ""]
    /\ percent' = counts_to_percentages(x)
    /\ table' = <<>>
    /\ raised' = "none"
    /\ UNCHANGED <<x, data>>

CallCalcCountsAndPercentages ==
    /\ call = NoCall
    /\ \E group \in GroupArgs, sort \in SortArgs, weight \in WeightArgs :
          \E r \in calc_counts_and_percentages(group, data, sort, weight) :
             /\ call' = [fn |-> "calc_counts_and_percentages", group |-> group,
                         sort |-> sort, weight |-> weight]
             /\ table' = r.value
             /\ raised' = r.raised
             /\ percent' = <<>>
             /\ UNCHANGED <<x, data>>

Next == CallCountsToPercentages \/ CallCalcCountsAndPercentages

Spec == Init /\ [][Next]_vars

(***************************************************************************)
(* Properties.  The shares are compared here in exact integer arithmetic:  *)
(* c of total is below 0.1% iff 1000 * c < total, and so on.               *)
(***************************************************************************)
FormatterCalled == call.fn = "counts_to_percentages"
TableReturned == call.fn = "calc_counts_and_percentages" /\ raised = "none"

Vals(s) == [k \in 1..Len(s) |-> s[k].val]
Keys(s) == [k \in 1..Len(s) |-> s[k].key]

RECURSIVE SumSeq(_)
SumSeq(s) == IF s = <<>> THEN 0 ELSE s[1] + SumSeq(Tail(s))

Abs(n) == IF n < 0 THEN 0 - n ELSE n

\* q tenths of a percent written with one decimal place: 234 is "23.4%".
TenthsString(q) == ToString(q \div 10) \o "." \o ToString(q % 10) \o "%"

\* str is the share c of total as the ordered rules of the specification give it;
\* "rounded to 1 decimal place" is a tenth nearest to the share.
ByTheRules(c, total, str) ==
    IF c = 0 THEN str = "0%"
    ELSE IF 1000 * c < total THEN str = "<0.1%"
    ELSE IF 1000 * c > 999 * total /\ c < total THEN str = ">99.9%"
    ELSE \E q \in {(1000 * c) \div total, (1000 * c) \div total + 1} :
            /\ str = TenthsString(q)
            /\ 2 * Abs(1000 * c - q * total) <= total

\* C1: for a Count Series of non-negative counts with a positive total, every
\* count is formatted by the ordered rules ("0%", "<0.1%", ">99.9%", else one
\* decimal place), and the two documented series give the documented strings.
C1_OrderedRules ==
    FormatterCalled /\ SumSeq(Vals(x)) > 0 =>
        /\ Len(percent) = Len(x)
        /\ \A k \in 1..Len(x) : ByTheRules(x[k].val, SumSeq(Vals(x)), percent[k].val)
        /\ (Vals(x) = Scenario1 =>
                Vals(percent) = <<"<0.1%", "0%", "10.0%", "20.0%", "10.0%", "50.0%", "10.0%">>)
        /\ (Vals(x) = Scenario2 => Vals(percent) = <<"<0.1%", "0%", ">99.9%">>)

C1_Witness ==
    /\ FormatterCalled
    /\ Vals(x) = Scenario1
    /\ Vals(percent) = <<"<0.1%", "0%", "10.0%", "20.0%", "10.0%", "50.0%", "10.0%">>

\* C2: a zero count is formatted as "0%" whatever the total of the series is,
\* a total of 0 included.
C2_ZeroIsZeroPercent ==
    FormatterCalled =>
        \A k \in 1..Len(x) : x[k].val = 0 => percent[k].val = "0%"

\* C3: no element of a returned Percentage Series is the string "0.0%".
C3_NeverZeroPointZero ==
    /\ FormatterCalled => \A k \in 1..Len(percent) : percent[k].val # "0.0%"
    /\ TableReturned => \A k \in 1..Len(table) : table[k].percent # "0.0%"

C3_Witness ==
    /\ FormatterCalled
    /\ \E k \in 1..Len(x) : /\ x[k].val > 0
                            /\ 2000 * x[k].val < SumSeq(Vals(x))
                            /\ percent[k].val = "<0.1%"

\* C4: a count that is the whole total is formatted as "100.0%", and ">99.9%"
\* is given only to shares strictly between 99.9% and 100%.
C4_FullShare ==
    FormatterCalled =>
        \A k \in 1..Len(x) :
            LET c == x[k].val
                total == SumSeq(Vals(x))
            IN /\ (total > 0 /\ c = total => percent[k].val = "100.0%")
               /\ (percent[k].val = ">99.9%" => 1000 * c > 999 * total /\ c < total)

C4_Witness ==
    /\ FormatterCalled
    /\ Len(x) >= 2
    /\ \E k \in 1..Len(x) : /\ x[k].val > 0
                            /\ x[k].val = SumSeq(Vals(x))
                            /\ percent[k].val = "100.0%"

\* The labels that occur in the grouping column (a missing label is no value).
DistinctLabels == {data[k].g : k \in 1..Len(data)} \ {NA}

\* The rows of data whose grouping label is present.
LabelledRows == {k \in 1..Len(data) : data[k].g # NA}

RECURSIVE SumOver(_, _)
\* The sum of the weight column over the rows of data in the set R.
SumOver(d, R) ==
    IF R = {} THEN 0
    ELSE LET k == CHOOSE k \in R : TRUE
         IN d[k].w + SumOver(d, R \ {k})

ColumnN == [k \in 1..Len(table) |-> table[k].n]

\* C5: the Frequency Table has exactly one row per distinct value of the
\* grouping column, whatever the sort mode, weighted or not.
C5_OneRowPerValue ==
    TableReturned =>
        /\ Len(table) = Cardinality(DistinctLabels)
        /\ \A v \in DistinctLabels :
              Cardinality({k \in 1..Len(table) : table[k].group = v}) = 1

C5_Witness ==
    /\ TableReturned
    /\ Len(data) > Cardinality(DistinctLabels)
    /\ Cardinality(DistinctLabels) >= 2
    /\ Len(table) = Cardinality(DistinctLabels)

\* C6 as stated: the count column sums to the number of rows of data without a
\* weight, and to the sum of the weight column over all rows with one.
C6_SumOverAllRows ==
    TableReturned =>
        IF call.weight = "None"
        THEN SumSeq(ColumnN) = Len(data)
        ELSE SumSeq(ColumnN) = SumOver(data, 1..Len(data))

\* C6 as amended: the count column sums to the number of rows of data whose
\* grouping label is present without a weight, and to the sum of the weight
\* column over those rows with one.
C6_SumOverLabelledRows ==
    TableReturned =>
        IF call.weight = "None"
        THEN SumSeq(ColumnN) = Cardinality(LabelledRows)
        ELSE SumSeq(ColumnN) = SumOver(data, LabelledRows)

C6_Witness ==
    /\ TableReturned
    /\ call.weight = "w"
    /\ Cardinality(LabelledRows) >= 2
    /\ \E k \in 1..Len(data) : data[k].g = NA /\ data[k].w > 0
    /\ SumSeq(ColumnN) = SumOver(data, LabelledRows)
    /\ SumSeq(ColumnN) > Cardinality(LabelledRows)

\* The first row of data that holds the label v.
FirstRow(v) == CHOOSE k \in 1..Len(data) : data[k].g = v /\ \A j \in 1..(k - 1) : data[j].g # v

\* C7 as stated: without a weight, sort=True orders the rows by count
\* descending, equal counts in the order their categories first occur in data;
\* sort="index" orders them by category label ascending; a, a, b, b, b gives
\* b (3, "60.0%") and then a (2, "40.0%").
C7_SortOrder ==
    TableReturned /\ call.weight = "None" =>
        /\ call.sort = "True" =>
              \A i, j \in 1..Len(table) :
                  i < j => \/ table[i].n > table[j].n
                           \/ /\ table[i].n = table[j].n
                              /\ FirstRow(table[i].group) < FirstRow(table[j].group)
        /\ call.sort = "index" =>
              \A i, j \in 1..Len(table) : i < j => table[i].group < table[j].group
        /\ (call.sort = "True" /\ data = Scenario3) =>
              table = <<[group |-> 2, n |-> 3, percent |-> "60.0%"],
                        [group |-> 1, n |-> 2, percent |-> "40.0%"]>>

\* C7 as amended: without a weight, sort=True orders the rows by count
\* descending (the order among rows of equal count is not determined);
\* sort="index" orders them by category label ascending; a, a, b, b, b gives
\* b (3, "60.0%") and then a (2, "40.0%").
C7_SortOrderUpToTies ==
    TableReturned /\ call.weight = "None" =>
        /\ call.sort = "True" =>
              \A i, j \in 1..Len(table) : i < j => table[i].n >= table[j].n
        /\ call.sort = "index" =>
              \A i, j \in 1..Len(table) : i < j => table[i].group < table[j].group
        /\ (call.sort = "True" /\ data = Scenario3) =>
              table = <<[group |-> 2, n |-> 3, percent |-> "60.0%"],
                        [group |-> 1, n |-> 2, percent |-> "40.0%"]>>

C7_Witness ==
    /\ TableReturned
    /\ call.weight = "None"
    /\ call.sort = "True"
    /\ data = Scenario3
    /\ table = <<[group |-> 2, n |-> 3, percent |-> "60.0%"],
                 [group |-> 1, n |-> 2, percent |-> "40.0%"]>>

\* C8: the percentages are parallel to the counts: counts_to_percentages keeps
\* the keys of its input in their order, and every row of the Frequency Table
\* holds the formatted share of that row's count in the sum of the count column.
C8_Parallel ==
    /\ FormatterCalled =>
          /\ Keys(percent) = Keys(x)
          /\ \A k \in 1..Len(x) :
                percent[k].val
                    = Replace(FormatPercent(RawPercent(x[k].val, SumSeq(Vals(x)))))
    /\ TableReturned =>
          \A k \in 1..Len(table) :
              table[k].percent
                  = Replace(FormatPercent(RawPercent(table[k].n, SumSeq(ColumnN))))

C8_Witness ==
    /\ TableReturned
    /\ Len(table) >= 2
    /\ table[1].n # table[2].n
    /\ table[1].percent # table[2].percent
    /\ table[1].percent = Replace(FormatPercent(RawPercent(table[1].n, SumSeq(ColumnN))))

\* C9: on a table of zero rows calc_counts_and_percentages returns a table of
\* zero rows and raises nothing, and counts_to_percentages on an empty Count
\* Series returns an empty Percentage Series.
C9_EmptyInput ==
    /\ (/\ call.fn = "calc_counts_and_percentages"
        /\ data = <<>>
        /\ call.group \in Columns
        /\ call.weight \in Columns \cup {"None"})
          => raised = "none" /\ table = <<>>
    /\ (FormatterCalled /\ x = <<>>) => raised = "none" /\ percent = <<>>

C9_Witness ==
    /\ call.fn = "calc_counts_and_percentages"
    /\ data = <<>>
    /\ call.group = "g"
    /\ call.weight = "w"
    /\ raised = "none"
    /\ table = <<>>

\* C10: with a weight column the sort argument has no effect: the rows are in
\* the order of the grouping (ascending by label), the same for every value of
\* sort, and are not put in descending order of count.
C10_WeightedIgnoresSort ==
    TableReturned /\ call.weight = "w" =>
        /\ \A i, j \in 1..Len(table) : i < j => table[i].group < table[j].group
        /\ \A s \in SortArgs :
              calc_counts_and_percentages(call.group, data, s, call.weight)
                  = {[raised |-> "none", value |-> table]}

C10_Witness ==
    /\ TableReturned
    /\ call.weight = "w"
    /\ call.sort = "True"
    /\ Len(table) >= 2
    /\ table[1].n < table[2].n
====
